---------------------------- MODULE Spec2Model ----------------------------
(***************************************************************************)
(* Model of Recipe/workflow/auxiliary.py: the archive metadata patcher     *)
(* (update_gc_zip_annotation), the analyzer (analyze_annotations), the     *)
(* packager (zip_folder) and the normalizer (unzip_and_organize).          *)
(*                                                                         *)
(* A directory tree is a function from paths to nodes.  A path is a        *)
(* sequence of names relative to the directory handed to the operation, a  *)
(* name is a sequence of tokens ("r", "-GC", ".zip"), so that              *)
(* str.endswith is a suffix test on tokens.  A ZIP archive is a file whose *)
(* content is itself a function from entry paths to nodes.                 *)
(***************************************************************************)
EXTENDS Integers, Sequences, FiniteSets, TLC

VARIABLES
    fs,               \* the directory tree the operation is called on
    readonly,         \* paths of files the process may read but not write
    glob_imported,    \* whether the module's globals bind the name glob
    items,            \* unzip_and_organize: extracted_items still to move
    pc,               \* position inside the running call, or "idle"/"returned"
    op,               \* the function that runs or ran last
    args,             \* <<annotation_name, sequence_location>> of the call
    zip_file_path,    \* local zip_file_path (NoPath: None)
    todo,             \* what the running loop has still to visit
    name_counter,     \* analyze_annotations: Counter of annotations.name
    location_counter, \* analyze_annotations: Counter of sequence.location
    out,              \* messages printed by the call
    exc,              \* the exception the call caught last ("" when none)
    raised,           \* the exception that left the call ("" when none)
    calls,            \* number of calls started
    pre,              \* history: the tree when the running call started
    prev              \* history: the function and arguments of the call before

vars == <<fs, readonly, glob_imported, items, pc, op, args, zip_file_path, todo, name_counter,
          location_counter, out, exc, raised, calls, pre, prev>>

(***************************************************************************)
(* Bounds of the model.                                                    *)
(***************************************************************************)
MaxCalls == 2
MaxFusion == 2

(***************************************************************************)
(* Names and paths.                                                        *)
(***************************************************************************)
\* str.endswith
EndsWith(name, suffix) ==
    /\ Len(name) >= Len(suffix)
    /\ SubSeq(name, Len(name) - Len(suffix) + 1, Len(name)) = suffix

GCSuffix == <<"-GC", ".zip">>
FusionSuffix == <<".fusion-data">>
ZipSuffix == <<".zip">>
TempUnzip == <<"temp_unzip">>
TempExtraction == <<"temp_extraction">>
HolderGitignore == <<"holder", ".gitignore">>

\* zip_file_path = None; os.path.join(root, file) never yields the empty path.
NoPath == <<>>

IsPrefix(p, q) == Len(p) <= Len(q) /\ SubSeq(q, 1, Len(p)) = p
Under(p, q) == Len(p) < Len(q) /\ IsPrefix(p, q)
Parent(p) == SubSeq(p, 1, Len(p) - 1)
Base(p) == p[Len(p)]
RelPath(q, start) == SubSeq(q, Len(start) + 1, Len(q))
Prefixes(p) == {SubSeq(p, 1, i) : i \in 1..Len(p)}

(***************************************************************************)
(* Nodes and file contents.                                                *)
(***************************************************************************)
Dir == [k |-> "dir", v |-> <<>>]
File(content) == [k |-> "file", v |-> content]

Json(fmt, doc) == [k |-> "json", v |-> [fmt |-> fmt, doc |-> doc]]
Garbled == [k |-> "garbled", v |-> <<>>]
Binary == [k |-> "binary", v |-> <<>>]
Plain(tag) == [k |-> "plain", v |-> tag]
Zip(entries) == [k |-> "zip", v |-> entries]

Obj(pairs) == [k |-> "obj", v |-> pairs]
Str(s) == [k |-> "str", v |-> s]
Num(n) == [k |-> "num", v |-> n]
List == [k |-> "list", v |-> <<>>]

(***************************************************************************)
(* Directory trees.                                                        *)
(***************************************************************************)
Exists(f, p) == p \in DOMAIN f
IsDir(f, p) == Exists(f, p) /\ f[p].k = "dir"
IsFile(f, p) == Exists(f, p) /\ f[p].k = "file"

Restrict(f, S) == [p \in S |-> f[p]]
Overlay(f, g) ==
    [p \in DOMAIN f \cup DOMAIN g |-> IF p \in DOMAIN g THEN g[p] ELSE f[p]]

\* shutil.rmtree(p): p and everything below it is gone.
RmTree(f, p) == Restrict(f, {q \in DOMAIN f : ~IsPrefix(p, q)})

\* os.makedirs(p): p and its missing ancestors become directories.
MakeDirs(f, p) ==
    Overlay(f, [q \in {r \in Prefixes(p) : ~Exists(f, r)} |-> Dir])

\* os.walk(top): every non-directory below top, at any depth.
WalkFiles(f, top) == {q \in DOMAIN f : Under(top, q) /\ f[q].k = "file"}

\* Mutant: the test is file.endswith(".zip"), the last token of the suffix.
WalkFirstAnyZip(f, top, suffix) ==
    LET hits == {q \in WalkFiles(f, top) : EndsWith(Base(q), <<suffix[Len(suffix)]>>)}
    IN  {q \in hits :
            \A r \in hits : ~(Parent(r) # Parent(q) /\ IsPrefix(Parent(r), Parent(q)))}

\* The first match of the two nested loops over os.walk: the walk is top-down
\* and lists a directory's files before it descends, siblings in the order the
\* platform lists them.  A matching file can come first exactly when no
\* directory above its own holds a matching file.
WalkFirst(f, top, suffix) ==
    LET hits == {q \in WalkFiles(f, top) : EndsWith(Base(q), suffix)}
    IN  {q \in hits :
            \A r \in hits : ~(Parent(r) # Parent(q) /\ IsPrefix(Parent(r), Parent(q)))}

\* ZipFile.extractall(dest): directory entries become directories, file
\* entries become files, missing parents are created.
ExtractAll(f, entries, dest) ==
    LET made == UNION {Prefixes(dest \o e) : e \in DOMAIN entries}
        dirs == {q \in made : ~Exists(f, q) /\ \A e \in DOMAIN entries : dest \o e # q}
    IN  Overlay(Overlay(f, [q \in dirs |-> Dir]),
                [q \in {dest \o e : e \in DOMAIN entries} |-> entries[RelPath(q, dest)]])

\* Mutant: entries named by their path from the data folder (a relpath with
\* the wrong start), not from the scratch directory.
PackFilesFromRoot(f, top) == [q \in WalkFiles(f, top) |-> f[q]]

\* The archive written by the loop over os.walk(top): one entry per file
\* below top, named by its path relative to top.
PackFiles(f, top) ==
    [e \in {RelPath(q, top) : q \in WalkFiles(f, top)} |-> f[top \o e]]

(***************************************************************************)
(* JSON: json.load of a document and json.dump(indent=4) of a value.       *)
(* A document's object is a sequence of <<key, document>> members, which  *)
(* may repeat a key; a value's object holds each key once, in the order    *)
(* the keys were first inserted.                                           *)
(***************************************************************************)
HasKey(pairs, key) == \E i \in 1..Len(pairs) : pairs[i][1] = key
KeyIndex(pairs, key) == CHOOSE i \in 1..Len(pairs) : pairs[i][1] = key
GetKey(pairs, key) == pairs[KeyIndex(pairs, key)][2]

\* d[key] = val on a dict: an existing key keeps its position.
SetKey(pairs, key, val) ==
    IF HasKey(pairs, key)
    THEN [pairs EXCEPT ![KeyIndex(pairs, key)] = <<key, val>>]
    ELSE Append(pairs, <<key, val>>)

RECURSIVE ParseMembers(_, _)
RECURSIVE ParseDoc(_)
ParseMembers(members, acc) ==
    IF members = <<>> THEN acc
    ELSE ParseMembers(Tail(members),
                      SetKey(acc, Head(members)[1], ParseDoc(Head(members)[2])))
ParseDoc(doc) ==
    IF doc.k = "obj" THEN Obj(ParseMembers(doc.v, <<>>)) ELSE doc

json_dump(data) == Json("indent4", data)

Ok(val) == [ok |-> TRUE, exc |-> "", val |-> val]
Exc(name) == [ok |-> FALSE, exc |-> name, val |-> List]

\* json.load(f): the bytes are decoded as UTF-8 first (UnicodeDecodeError,
\* a ValueError that is no JSONDecodeError), then parsed (JSONDecodeError).
json_load(content) ==
    CASE content.k = "json" -> Ok(ParseDoc(content.v.doc))
      [] content.k \in {"garbled", "plain"} -> Exc("JSONDecodeError")
      [] OTHER -> Exc("UnicodeDecodeError")

\* "key" in data and isinstance(data["key"], dict)
IsContainer(data) == data.k \in {"obj", "list"}
HasDict(data, key) ==
    /\ data.k = "obj"
    /\ HasKey(data.v, key)
    /\ GetKey(data.v, key).k = "obj"

\* data[key][field] = val when data[key] is a dict.
SetField(data, key, field, val) ==
    IF HasDict(data, key)
    THEN Obj(SetKey(data.v, key, Obj(SetKey(GetKey(data.v, key).v, field, Str(val)))))
    ELSE data

\* Mutant: sequence.location is never written.
PatchDataNameOnly(data, annotation_name, sequence_location) ==
    IF ~IsContainer(data) THEN Exc("TypeError")
    ELSE Ok(SetField(data, "annotations", "name", annotation_name))

\* Lines 118-123: the two guarded assignments ("in" raises TypeError on a
\* value that is no container).
PatchData(data, annotation_name, sequence_location) ==
    IF ~IsContainer(data) THEN Exc("TypeError")
    ELSE Ok(SetField(SetField(data, "annotations", "name", annotation_name),
                     "sequence", "location", sequence_location))

(***************************************************************************)
(* Inputs: the .fusion-data documents, the archives and the arguments the  *)
(* calls are tried on.                                                     *)
(***************************************************************************)
GoodDoc ==
    Obj(<< <<"annotations", Obj(<< <<"name", Str("old")>>, <<"id", Num(1)>> >>)>>,
           <<"sequence", Obj(<< <<"location", Str("lab")>> >>)>>,
           <<"detector", Str("FID")>> >>)
\* Empty annotations and sequence objects, and a member given twice.
BareDoc ==
    Obj(<< <<"detector", Str("TCD")>>,
           <<"annotations", Obj(<<>>)>>,
           <<"sequence", Obj(<<>>)>>,
           <<"detector", Str("FID")>> >>)
\* annotations that is no object, no sequence at all.
FlatDoc == Obj(<< <<"annotations", Str("none")>>, <<"run", Num(7)>> >>)

FusionPool ==
    {Json("compact", GoodDoc), Json("compact", BareDoc), Json("compact", FlatDoc),
     Json("compact", Num(5)), Json("compact", List), Garbled, Binary}

FusionNames ==
    << << <<"u1", ".fusion-data">> >>,
       << <<"raw">>, <<"u2", ".fusion-data">> >>,
       << <<"raw">>, <<"u3", ".fusion-data">> >> >>

\* What else an archive may hold: nothing, or a text file and an empty
\* directory entry.
ExtraPool ==
    {<<>>,
     [e \in {<< <<"notes", ".txt">> >>, << <<"blank">> >>} |->
        IF e = << <<"blank">> >> THEN Dir ELSE File(Plain("notes"))]}

NameIndex(e) == CHOOSE i \in 1..Len(FusionNames) : FusionNames[i] = e
FusionEntries(n, pool) ==
    {[e \in {FusionNames[i] : i \in 1..n} |-> File(c[NameIndex(e)])] :
        c \in [1..n -> pool]}

\* Every archive of up to MaxFusion .fusion-data entries, and the few that
\* the placements whose outcome does not hang on the entries are tried on.
Archives ==
    {Overlay(x, fe) :
        x \in ExtraPool, fe \in UNION {FusionEntries(n, FusionPool) : n \in 0..MaxFusion}}
FewArchives ==
    {Overlay(x, fe) :
        x \in ExtraPool,
        fe \in FusionEntries(1, {Json("compact", GoodDoc), Json("compact", BareDoc), Garbled})}

ArgPool == {<<"N1", "L1">>, <<"N2", "L2">>}

GCName == <<"r", "-GC", ".zip">>
RunDir == <<"run1">>
TempDir == <<TempUnzip>>

Put(f, p, node) == Overlay(MakeDirs(f, Parent(p)), [q \in {p} |-> node])

\* The archive directly in the data folder.
AtRoot(a) == Put(<<>>, <<GCName>>, File(Zip(a)))
\* As AtRoot, with a second GC archive one level down.
RootAndSub(a) ==
    Put(AtRoot(a), <<RunDir, <<"s", "-GC", ".zip">> >>,
        File(Zip([e \in {FusionNames[1]} |-> File(Json("compact", GoodDoc))])))
\* The archive one level down, beside a scratch directory an interrupted
\* call left behind.
InSubStale(a) ==
    Put(Put(<<>>, <<RunDir, GCName>>, File(Zip(a))),
        <<TempUnzip, <<"old", ".fusion-data">> >>, File(Json("compact", GoodDoc)))
\* The only GC archive lies inside the left-over scratch directory.
InScratch(a) == Put(<<>>, <<TempUnzip, GCName>>, File(Zip(a)))
\* A file named as a GC archive that is no ZIP file.
Corrupt == Put(<<>>, <<GCName>>, File(Binary))
\* No file ends in -GC.zip: a plain .zip, a directory named d-GC.zip, a
\* file GC.zip, a left-over scratch directory.
NoGC(a) ==
    Put(Put(Put(Put(<<>>, << <<"r", ".zip">> >>, File(Zip(a))),
                << <<"d", "-GC", ".zip">>, FusionNames[1][1] >>, File(Json("compact", GoodDoc))),
            << <<"GC", ".zip">> >>, File(Binary)),
        <<TempUnzip, <<"old", ".fusion-data">> >>, File(Json("compact", GoodDoc)))

\* <<tree, read-only files>>
InitTrees ==
    {<<t, {}>> : t \in {AtRoot(a) : a \in Archives} \cup {InSubStale(a) : a \in Archives}
                       \cup {RootAndSub(a) : a \in FewArchives}
                       \cup {InScratch(a) : a \in FewArchives}
                       \cup {NoGC(a) : a \in FewArchives} \cup {Corrupt}}
    \cup {<<AtRoot(a), {<<GCName>>}>> : a \in FewArchives}

NoCall == [op |-> "none", args |-> <<"", "">>]

InitCommon ==
    /\ items = {}
    /\ pc = "idle"
    /\ op = "none"
    /\ args = <<"", "">>
    /\ zip_file_path = NoPath
    /\ todo = {}
    /\ name_counter = <<>>
    /\ location_counter = <<>>
    /\ out = {}
    /\ exc = ""
    /\ raised = ""
    /\ calls = 0
    /\ prev = NoCall

Init ==
    /\ \E t \in InitTrees : fs = t[1] /\ readonly = t[2]
    /\ glob_imported = FALSE
    /\ pre = fs
    /\ InitCommon

(***************************************************************************)
(* Calls and returns.                                                      *)
(***************************************************************************)
Msg(m, p) == [m |-> m, p |-> p]

CanCall == pc \in {"idle", "returned"} /\ calls < MaxCalls

\* The bookkeeping of a call that starts: fresh locals, the history, and the
\* exception r ("" for none) with which the call's first statement leaves it.
Enter(name, a, r) ==
    /\ CanCall
    /\ calls' = calls + 1
    /\ prev' = [op |-> op, args |-> args]
    /\ op' = name
    /\ args' = a
    /\ pre' = fs
    /\ exc' = ""
    /\ raised' = r
    /\ name_counter' = <<>>
    /\ location_counter' = <<>>

(***************************************************************************)
(* update_gc_zip_annotation                                                *)
(***************************************************************************)
\* Lines 80-97: locate the archive; print and return when there is none.
PatchLocate ==
    \E a \in ArgPool :
        /\ Enter("patch", a, "")
        /\ todo' = {}
        /\ LET found == WalkFirst(fs, <<>>, GCSuffix)
           IN  IF found = {}
               THEN /\ zip_file_path' = NoPath
                    /\ out' = {Msg("No zip file found", NoPath)}
                    /\ pc' = "returned"
               ELSE /\ \E z \in found :
                         /\ zip_file_path' = z
                         /\ out' = {Msg("Located zip file", z)}
                    /\ pc' = "p_prepare"
        /\ UNCHANGED <<fs, readonly, glob_imported, items>>

\* Lines 101-103: remove a left-over scratch directory, create it anew.
PatchPrepare ==
    /\ pc = "p_prepare"
    /\ fs' = MakeDirs(IF Exists(fs, TempDir) THEN RmTree(fs, TempDir) ELSE fs, TempDir)
    /\ pc' = "p_extract"
    /\ UNCHANGED <<readonly, glob_imported, items, op, args, zip_file_path, todo, name_counter,
                   location_counter, out, exc, raised, calls, pre, prev>>

\* Lines 106-107: open the archive and extract it all; the walk of step 4
\* will meet every extracted file whose name ends in .fusion-data.
PatchExtract ==
    /\ pc = "p_extract"
    /\ IF ~Exists(fs, zip_file_path)
       THEN exc' = "FileNotFoundError" /\ pc' = "p_except" /\ UNCHANGED <<fs, todo>>
       ELSE IF fs[zip_file_path].v.k # "zip"
       THEN exc' = "BadZipFile" /\ pc' = "p_except" /\ UNCHANGED <<fs, todo>>
       ELSE /\ fs' = ExtractAll(fs, fs[zip_file_path].v.v, TempDir)
            /\ todo' = {q \in WalkFiles(fs', TempDir) : EndsWith(Base(q), FusionSuffix)}
            /\ pc' = "p_edit"
            /\ exc' = exc
    /\ UNCHANGED <<readonly, glob_imported, items, op, args, zip_file_path, name_counter,
                   location_counter, out, raised, calls, pre, prev>>

\* Mutant: a file that does not load is skipped and the walk goes on, as in
\* analyze_annotations.
PatchEditSkipBad ==
    /\ pc = "p_edit"
    /\ \E q \in todo :
        LET loaded == json_load(fs[q].v)
            patched == PatchData(loaded.val, args[1], args[2])
        IN  IF ~loaded.ok
            THEN exc' = loaded.exc /\ todo' = todo \ {q} /\ UNCHANGED <<fs, pc>>
            ELSE IF ~patched.ok
            THEN exc' = patched.exc /\ pc' = "p_except" /\ UNCHANGED <<fs, todo>>
            ELSE /\ fs' = [fs EXCEPT ![q] = File(json_dump(patched.val))]
                 /\ todo' = todo \ {q}
                 /\ UNCHANGED <<pc, exc>>
    /\ UNCHANGED <<readonly, glob_imported, items, op, args, zip_file_path, name_counter,
                   location_counter, out, raised, calls, pre, prev>>

\* Lines 110-127, one file of the walk: load, patch, dump.
PatchEdit ==
    /\ pc = "p_edit"
    /\ \E q \in todo :
        LET loaded == json_load(fs[q].v)
            patched == PatchData(loaded.val, args[1], args[2])
        IN  IF ~loaded.ok
            THEN exc' = loaded.exc /\ pc' = "p_except" /\ UNCHANGED <<fs, todo>>
            ELSE IF ~patched.ok
            THEN exc' = patched.exc /\ pc' = "p_except" /\ UNCHANGED <<fs, todo>>
            ELSE /\ fs' = [fs EXCEPT ![q] = File(json_dump(patched.val))]
                 /\ todo' = todo \ {q}
                 /\ UNCHANGED <<pc, exc>>
    /\ UNCHANGED <<readonly, glob_imported, items, op, args, zip_file_path, name_counter,
                   location_counter, out, raised, calls, pre, prev>>

\* Lines 130-136: the walk of step 4 is over; write the archive anew from
\* the files of the scratch directory.
PatchRepack ==
    /\ pc = "p_edit"
    /\ todo = {}
    /\ IF zip_file_path \in readonly
       THEN exc' = "PermissionError" /\ pc' = "p_except" /\ UNCHANGED <<fs, out>>
       ELSE /\ fs' = [fs EXCEPT ![zip_file_path] = File(Zip(PackFiles(fs, TempDir)))]
            /\ out' = out \cup {Msg("Updated zip file saved", zip_file_path)}
            /\ pc' = "p_finally"
            /\ exc' = exc
    /\ UNCHANGED <<readonly, glob_imported, items, op, args, zip_file_path, todo, name_counter,
                   location_counter, raised, calls, pre, prev>>

\* Lines 138-139: the handler prints the exception and swallows it.
PatchExcept ==
    /\ pc = "p_except"
    /\ out' = out \cup {Msg("An error occurred", NoPath)}
    /\ pc' = "p_finally"
    /\ UNCHANGED <<fs, readonly, glob_imported, items, op, args, zip_file_path, todo, name_counter,
                   location_counter, exc, raised, calls, pre, prev>>

\* Mutant: the clean-up as the last statement of the try block, skipped when
\* an exception was caught.
PatchFinallyOnSuccess ==
    /\ pc = "p_finally"
    /\ fs' = IF Exists(fs, TempDir) /\ exc = "" THEN RmTree(fs, TempDir) ELSE fs
    /\ out' = out \cup {Msg("Temporary files cleaned up", NoPath)}
    /\ pc' = "returned"
    /\ UNCHANGED <<readonly, glob_imported, items, op, args, zip_file_path, todo, name_counter,
                   location_counter, exc, raised, calls, pre, prev>>

\* Lines 141-145: remove the scratch directory and return.
PatchFinally ==
    /\ pc = "p_finally"
    /\ fs' = IF Exists(fs, TempDir) THEN RmTree(fs, TempDir) ELSE fs
    /\ out' = out \cup {Msg("Temporary files cleaned up", NoPath)}
    /\ pc' = "returned"
    /\ UNCHANGED <<readonly, glob_imported, items, op, args, zip_file_path, todo, name_counter,
                   location_counter, exc, raised, calls, pre, prev>>

(***************************************************************************)
(* analyze_annotations                                                     *)
(***************************************************************************)
\* counter[key] += 1
Inc(counter, key) ==
    IF key \in DOMAIN counter
    THEN [counter EXCEPT ![key] = @ + 1]
    ELSE Overlay(counter, [x \in {key} |-> 1])

\* data[key].get(field, default)
GetOr(data, key, field, default) ==
    LET d == GetKey(data.v, key).v
    IN  IF HasKey(d, field) THEN GetKey(d, field) ELSE Str(default)

\* A Counter key must be hashable: a dict or a list is not.
Hashable(val) == val.k \notin {"obj", "list"}

\* Lines 188-195 on one loaded document: the two counters after it, or the
\* TypeError of "in" on a value that is no container or of an unhashable key.
Tally(data, names, locations) ==
    IF ~IsContainer(data) THEN Exc("TypeError")
    ELSE LET name == GetOr(data, "annotations", "name", "No name field found")
             location == GetOr(data, "sequence", "location", "No location field found")
         IN  IF \/ HasDict(data, "annotations") /\ ~Hashable(name)
                \/ HasDict(data, "sequence") /\ ~Hashable(location)
             THEN Exc("TypeError")
             ELSE Ok(<<IF HasDict(data, "annotations") THEN Inc(names, name) ELSE names,
                       IF HasDict(data, "sequence") THEN Inc(locations, location)
                       ELSE locations>>)

\* Lines 156-174: locate the archive; print and return when there is none.
AnalyzeLocate ==
    /\ Enter("analyze", <<"", "">>, "")
    /\ todo' = {}
    /\ LET found == WalkFirst(fs, <<>>, GCSuffix)
       IN  IF found = {}
           THEN /\ zip_file_path' = NoPath
                /\ out' = {Msg("No zip file found", NoPath)}
                /\ pc' = "returned"
           ELSE /\ \E z \in found :
                     /\ zip_file_path' = z
                     /\ out' = {Msg("Located zip file", z)}
                /\ pc' = "a_open"
    /\ UNCHANGED <<fs, readonly, glob_imported, items>>

\* Line 178, and lines 201-203 when the file is no ZIP archive; the loop of
\* line 179 will meet every name of the archive that ends in .fusion-data.
AnalyzeOpen ==
    /\ pc = "a_open"
    /\ UNCHANGED <<fs, readonly, glob_imported, items, op, args, zip_file_path, name_counter,
                   location_counter, raised, calls, pre, prev>>
    /\ IF fs[zip_file_path].v.k # "zip"
       THEN /\ exc' = "BadZipFile"
            /\ out' = out \cup {Msg("An error occurred", NoPath)}
            /\ pc' = "returned"
            /\ todo' = todo
       ELSE /\ todo' = {e \in DOMAIN fs[zip_file_path].v.v :
                            /\ fs[zip_file_path].v.v[e].k = "file"
                            /\ EndsWith(Base(e), FusionSuffix)}
            /\ pc' = "a_scan"
            /\ UNCHANGED <<exc, out>>

\* Lines 181-199 on one entry: a JSONDecodeError is reported and the entry
\* skipped; any other exception reaches lines 201-203 and ends the call.
AnalyzeScan ==
    /\ pc = "a_scan"
    /\ UNCHANGED <<fs, readonly, glob_imported, items, op, args, zip_file_path, raised, calls, pre, prev>>
    /\ \E e \in todo :
        LET loaded == json_load(fs[zip_file_path].v.v[e].v)
            tallied == Tally(loaded.val, name_counter, location_counter)
        IN  IF loaded.exc = "JSONDecodeError"
            THEN /\ out' = out \cup {Msg("not a valid JSON format", e)}
                 /\ todo' = todo \ {e}
                 /\ UNCHANGED <<pc, exc, name_counter, location_counter>>
            ELSE IF ~loaded.ok \/ ~tallied.ok
            THEN /\ exc' = IF loaded.ok THEN tallied.exc ELSE loaded.exc
                 /\ out' = out \cup {Msg("An error occurred", NoPath)}
                 /\ pc' = "returned"
                 /\ UNCHANGED <<todo, name_counter, location_counter>>
            ELSE /\ name_counter' = tallied.val[1]
                 /\ location_counter' = tallied.val[2]
                 /\ todo' = todo \ {e}
                 /\ UNCHANGED <<pc, exc, out>>

\* Lines 206-212: the loop is over; print both tallies.
AnalyzeReport ==
    /\ pc = "a_scan"
    /\ todo = {}
    /\ out' = out \cup {Msg("Occurrences", NoPath)}
    /\ pc' = "returned"
    /\ UNCHANGED <<fs, readonly, glob_imported, items, op, args, zip_file_path, todo, name_counter,
                   location_counter, exc, raised, calls, pre, prev>>

Next ==
    \/ PatchLocate
    \/ PatchPrepare
    \/ PatchExtract
    \/ PatchEdit
    \/ PatchRepack
    \/ PatchExcept
    \/ PatchFinally
    \/ AnalyzeLocate
    \/ AnalyzeOpen
    \/ AnalyzeScan
    \/ AnalyzeReport

Spec == Init /\ [][Next]_vars

(***************************************************************************)
(* zip_folder                                                              *)
(***************************************************************************)
OutputZip == <<"output", ".zip">>
SubDir == <<"sub">>
ZipNamePool == {<<OutputZip>>, <<SubDir, <<"bundle", ".zip">> >>}

\* What a read of the archive that is being written returns: some part of it.
HalfWritten == Plain("archive being written")

\* Lines 227-233: gather every file of the walk that is not holder.gitignore.
ZipCollect ==
    /\ \E z \in ZipNamePool :
        /\ Enter("zip", <<"", "">>, "")
        /\ zip_file_path' = z
    /\ todo' = {q \in WalkFiles(fs, <<>>) : Base(q) # HolderGitignore}
    /\ out' = {}
    /\ pc' = "z_open"
    /\ UNCHANGED <<fs, readonly, glob_imported, items>>

\* Line 236: ZipFile(zip_name, 'w') creates the archive, or empties the one
\* that is there; it raises when the archive's directory does not exist.
ZipOpen ==
    /\ pc = "z_open"
    /\ IF ~(Parent(zip_file_path) = <<>> \/ IsDir(fs, Parent(zip_file_path)))
       THEN raised' = "FileNotFoundError" /\ pc' = "returned" /\ fs' = fs
       ELSE /\ fs' = Overlay(fs, [q \in {zip_file_path} |-> File(Zip(<<>>))])
            /\ pc' = "z_write"
            /\ raised' = raised
    /\ UNCHANGED <<readonly, glob_imported, items, op, args, zip_file_path, todo,
                   name_counter, location_counter, out, exc, calls, pre, prev>>

\* Lines 237-238, one gathered file: an entry named by its relative path.
ZipWrite ==
    /\ pc = "z_write"
    /\ \E q \in todo :
        /\ fs' = [fs EXCEPT ![zip_file_path] =
                    File(Zip(Overlay(@.v.v,
                        [e \in {q} |-> IF q = zip_file_path THEN File(HalfWritten) ELSE fs[q]])))]
        /\ todo' = todo \ {q}
    /\ UNCHANGED <<readonly, glob_imported, items, pc, op, args, zip_file_path,
                   name_counter, location_counter, out, exc, raised, calls, pre, prev>>

\* Line 240: the list is exhausted, the archive is closed.
ZipDone ==
    /\ pc = "z_write"
    /\ todo = {}
    /\ out' = out \cup {Msg("Zipping complete", zip_file_path)}
    /\ pc' = "returned"
    /\ UNCHANGED <<fs, readonly, glob_imported, items, op, args, zip_file_path, todo,
                   name_counter, location_counter, exc, raised, calls, pre, prev>>

(***************************************************************************)
(* unzip_and_organize                                                      *)
(***************************************************************************)
TempExtract == <<TempExtraction>>

\* os.path.splitext(os.path.basename(zip_file))[0]
ZipBaseName(p) == SubSeq(Base(p), 1, Len(Base(p)) - 1)

\* os.listdir(d): the names directly in d.
ListDir(f, d) == {q[Len(d) + 1] : q \in {r \in DOMAIN f : Under(d, r)}}

\* glob.glob(f"{data_folder}/*.zip"): the entries directly in the folder,
\* files or not, whose name ends in .zip and does not start with a dot.
GlobZip(f) ==
    {q \in DOMAIN f : Len(q) = 1 /\ EndsWith(q[1], ZipSuffix) /\ Len(q[1]) > Len(ZipSuffix)}

\* os.rename of src and all below it to dst.
Move(f, src, dst) ==
    LET moved == {q \in DOMAIN f : IsPrefix(src, q)}
    IN  Overlay(Restrict(f, DOMAIN f \ moved),
                [q \in {dst \o RelPath(r, src) : r \in moved} |->
                    f[src \o RelPath(q, dst)]])

\* Line 250.  The module imports os, shutil, zipfile, json and Counter, and
\* never glob: the name is unbound and the statement raises NameError.  With
\* the name bound the call goes on to its loop over the matches.
NormalizeGlob ==
    /\ Enter("normalize", <<"", "">>, IF glob_imported THEN "" ELSE "NameError")
    /\ zip_file_path' = NoPath
    /\ out' = {}
    /\ IF glob_imported
       THEN todo' = GlobZip(fs) /\ pc' = "n_loop"
       ELSE todo' = {} /\ pc' = "returned"
    /\ UNCHANGED <<fs, readonly, glob_imported, items>>

\* Lines 252-261, for the next archive of the list: make the scratch
\* directory unless it exists, extract the archive into it.
NormalizeExtract ==
    /\ pc = "n_loop"
    /\ \E z \in todo :
        /\ zip_file_path' = z
        /\ todo' = todo \ {z}
        /\ IF IsFile(fs, TempExtract)
           THEN raised' = "FileExistsError" /\ pc' = "returned" /\ fs' = fs
           ELSE IF ~IsFile(fs, z)
           THEN /\ raised' = "IsADirectoryError"
                /\ pc' = "returned"
                /\ fs' = MakeDirs(fs, TempExtract)
           ELSE IF fs[z].v.k # "zip"
           THEN /\ raised' = "BadZipFile"
                /\ pc' = "returned"
                /\ fs' = MakeDirs(fs, TempExtract)
           ELSE /\ fs' = ExtractAll(MakeDirs(fs, TempExtract), fs[z].v.v, TempExtract)
                /\ pc' = "n_extracted"
                /\ raised' = raised
    /\ out' = out \cup {Msg("Unzipping", zip_file_path')}
    /\ UNCHANGED <<readonly, glob_imported, items, op, args, name_counter,
                   location_counter, exc, calls, pre, prev>>

\* Lines 264-281: list the scratch directory; when it holds one entry, named
\* as the archive, replace the folder of that name by it (case 1), else leave
\* every entry to the loop of case 2.
NormalizeInspect ==
    /\ pc = "n_extracted"
    /\ LET zip_name == ZipBaseName(zip_file_path)
           extracted_items == ListDir(fs, TempExtract)
           extracted_folder_path == TempExtract \o <<zip_name>>
           final_folder == <<zip_name>>
       IN  IF extracted_items = {zip_name}
           THEN IF \/ ~IsDir(fs, extracted_folder_path)
                   \/ IsFile(fs, final_folder)
                THEN /\ raised' = "NotADirectoryError"
                     /\ pc' = "returned"
                     /\ UNCHANGED <<fs, items>>
                ELSE /\ fs' = Move(RmTree(fs, final_folder), extracted_folder_path,
                                   final_folder)
                     /\ items' = {}
                     /\ pc' = "n_move"
                     /\ raised' = raised
           ELSE /\ items' = extracted_items
                /\ pc' = "n_move"
                /\ UNCHANGED <<fs, raised>>
    /\ UNCHANGED <<readonly, glob_imported, op, args, zip_file_path, todo, name_counter,
                   location_counter, out, exc, calls, pre, prev>>

\* Lines 285-286, one entry: shutil.move into the data folder raises when
\* the folder already holds that name.
NormalizeMove ==
    /\ pc = "n_move"
    /\ \E item \in items :
        IF Exists(fs, <<item>>)
        THEN raised' = "shutil.Error" /\ pc' = "returned" /\ UNCHANGED <<fs, items>>
        ELSE /\ fs' = Move(fs, TempExtract \o <<item>>, <<item>>)
             /\ items' = items \ {item}
             /\ UNCHANGED <<pc, raised>>
    /\ UNCHANGED <<readonly, glob_imported, op, args, zip_file_path, todo, name_counter,
                   location_counter, out, exc, calls, pre, prev>>

\* Lines 289-292: delete the archive and the scratch directory.
NormalizeCleanup ==
    /\ pc = "n_move"
    /\ items = {}
    /\ fs' = RmTree(RmTree(fs, zip_file_path), TempExtract)
    /\ out' = out \cup {Msg("Successfully extracted", zip_file_path)}
    /\ pc' = "n_loop"
    /\ UNCHANGED <<readonly, glob_imported, items, op, args, zip_file_path, todo,
                   name_counter, location_counter, exc, raised, calls, pre, prev>>

\* The loop of line 252 is over.
NormalizeReturn ==
    /\ pc = "n_loop"
    /\ todo = {}
    /\ pc' = "returned"
    /\ UNCHANGED <<fs, readonly, glob_imported, items, op, args, zip_file_path, todo,
                   name_counter, location_counter, out, exc, raised, calls, pre, prev>>

(***************************************************************************)
(* The folders zip_folder and unzip_and_organize are tried on.             *)
(***************************************************************************)
FooZip == <<"foo", ".zip">>
BarZip == <<"bar", ".zip">>
FooArchive == [e \in {<< <<"foo">>, <<"a", ".txt">> >>} |-> File(Plain("a"))]
BarArchive ==
    [e \in {<< <<"x", ".txt">> >>, << <<"y", ".txt">> >>} |-> File(Plain("new"))]

\* The optional parts of a folder.
FolderParts ==
    << [path |-> <<FooZip>>, node |-> File(Zip(FooArchive))],
       [path |-> <<BarZip>>, node |-> File(Zip(BarArchive))],
       [path |-> << <<"foo">>, <<"old", ".txt">> >>, node |-> File(Plain("old"))],
       [path |-> << <<"x", ".txt">> >>, node |-> File(Plain("old"))],
       [path |-> <<SubDir, <<"b", ".txt">> >>, node |-> File(Plain("b"))],
       [path |-> <<HolderGitignore>>, node |-> File(Plain(""))],
       [path |-> <<SubDir, HolderGitignore>>, node |-> File(Plain(""))],
       [path |-> << <<"c", ".zip">> >>, node |-> File(Binary)] >>

RECURSIVE PutAll(_, _)
PutAll(f, chosen) ==
    IF chosen = {} THEN f
    ELSE LET i == CHOOSE x \in chosen : TRUE
         IN  PutAll(Put(f, FolderParts[i].path, FolderParts[i].node), chosen \ {i})

Folders == {PutAll(<<>>, chosen) : chosen \in SUBSET (1..Len(FolderParts))}

InitFolder ==
    /\ fs \in Folders
    /\ readonly = {}
    /\ glob_imported = FALSE
    /\ pre = fs
    /\ InitCommon

NextFolder ==
    \/ ZipCollect
    \/ ZipOpen
    \/ ZipWrite
    \/ ZipDone
    \/ NormalizeGlob

\* zip_folder and unzip_and_organize as the module has them.
SpecFolder == InitFolder /\ [][NextFolder]_vars

InitLoop ==
    /\ fs \in Folders
    /\ readonly = {}
    /\ glob_imported = TRUE
    /\ pre = fs
    /\ InitCommon

NextLoop ==
    \/ NormalizeGlob
    \/ NormalizeExtract
    \/ NormalizeInspect
    \/ NormalizeMove
    \/ NormalizeCleanup
    \/ NormalizeReturn

\* The loop of unzip_and_organize, lines 252-292, as it runs once the name
\* glob is bound in the module.
SpecLoop == InitLoop /\ [][NextLoop]_vars

(***************************************************************************)
(* Properties of update_gc_zip_annotation and analyze_annotations.         *)
(***************************************************************************)
RECURSIVE SumOver(_, _)
SumOver(counter, keys) ==
    IF keys = {} THEN 0
    ELSE LET key == CHOOSE x \in keys : TRUE
         IN  counter[key] + SumOver(counter, keys \ {key})
SumCounts(counter) == SumOver(counter, DOMAIN counter)

IsZipAt(f, p) == IsFile(f, p) /\ f[p].v.k = "zip"
EntriesAt(f, p) == f[p].v.v
FusionOf(entries) ==
    {e \in DOMAIN entries : entries[e].k = "file" /\ EndsWith(Base(e), FusionSuffix)}
Printed(m) == \E x \in out : x.m = m

NoGCFile(f) == \A q \in DOMAIN f : f[q].k = "file" => ~EndsWith(Base(q), GCSuffix)

\* C1: on a tree that holds no file whose name ends in -GC.zip, a call of
\* update_gc_zip_annotation or of analyze_annotations returns at once, with no
\* exception caught or raised, and the tree (a left-over temp_unzip included)
\* is what it was when the call started.
C1_NoArchiveNoEffect ==
    (calls > 0 /\ NoGCFile(pre)) =>
        /\ pc = "returned"
        /\ fs = pre
        /\ exc = ""
        /\ raised = ""
        /\ Printed("No zip file found")

C1_Witness ==
    /\ calls = 2
    /\ prev.op = "patch"
    /\ op = "analyze"
    /\ pc = "returned"
    /\ NoGCFile(pre)
    /\ Exists(fs, TempDir)
    /\ \E q \in DOMAIN fs : EndsWith(Base(q), ZipSuffix)

\* Every .fusion-data entry is a JSON object whose annotations and sequence
\* are objects.
Qualifying(entries) ==
    \A e \in FusionOf(entries) :
        LET r == json_load(entries[e].v)
        IN  r.ok /\ HasDict(r.val, "annotations") /\ HasDict(r.val, "sequence")

Without(pairs, key) ==
    LET keep(p) == p[1] # key
    IN  SelectSeq(pairs, keep)
StripField(data, key, field) ==
    IF HasDict(data, key)
    THEN Obj(SetKey(data.v, key, Obj(Without(GetKey(data.v, key).v, field))))
    ELSE data
\* A value without annotations.name and sequence.location.
Strip(data) == StripField(StripField(data, "annotations", "name"), "sequence", "location")

\* The call found its archive outside the scratch directory and may write it.
Repackable == ~IsPrefix(TempDir, zip_file_path) /\ zip_file_path \notin readonly

PatchedCall ==
    /\ pc = "returned"
    /\ op = "patch"
    /\ zip_file_path # NoPath
    /\ IsZipAt(pre, zip_file_path)

\* C2: when the located archive's .fusion-data entries are all JSON objects
\* with object-valued annotations and sequence, the archive the call re-packs
\* holds the same .fusion-data entries, each of which loads to a value with
\* annotations.name = X and sequence.location = Y that equals the value the
\* entry loaded to before the call in every other member.
C2_PatchSetsBothFields ==
    (PatchedCall /\ Repackable /\ Qualifying(EntriesAt(pre, zip_file_path))) =>
        /\ IsZipAt(fs, zip_file_path)
        /\ Printed("Updated zip file saved")
        /\ FusionOf(EntriesAt(fs, zip_file_path)) = FusionOf(EntriesAt(pre, zip_file_path))
        /\ \A e \in FusionOf(EntriesAt(pre, zip_file_path)) :
            LET old == json_load(EntriesAt(pre, zip_file_path)[e].v).val
                new == json_load(EntriesAt(fs, zip_file_path)[e].v)
            IN  /\ new.ok
                /\ HasDict(new.val, "annotations")
                /\ HasDict(new.val, "sequence")
                /\ GetKey(GetKey(new.val.v, "annotations").v, "name") = Str(args[1])
                /\ GetKey(GetKey(new.val.v, "sequence").v, "location") = Str(args[2])
                /\ Strip(new.val) = Strip(old)

C2_Witness ==
    /\ PatchedCall
    /\ Repackable
    /\ Qualifying(EntriesAt(pre, zip_file_path))
    /\ Cardinality(FusionOf(EntriesAt(pre, zip_file_path))) >= 2
    /\ \E e \in FusionOf(EntriesAt(pre, zip_file_path)) :
        EntriesAt(pre, zip_file_path)[e].v = Json("compact", BareDoc)
    /\ Exists(pre, TempDir)

\* C3: the archive's entry paths after the call are its entry paths before
\* the call (stated for an archive found outside the scratch directory).
C3_EntrySetPreserved ==
    (PatchedCall /\ ~IsPrefix(TempDir, zip_file_path)) =>
        /\ IsZipAt(fs, zip_file_path)
        /\ DOMAIN EntriesAt(fs, zip_file_path) = DOMAIN EntriesAt(pre, zip_file_path)

\* C4: once update_gc_zip_annotation has located an archive, temp_unzip does
\* not exist when the call returns, whatever step raised and whether or not a
\* scratch directory was left over before the call.
C4_ScratchRemoved ==
    (pc = "returned" /\ op = "patch" /\ zip_file_path # NoPath) => ~Exists(fs, TempDir)

C4_Witness ==
    /\ pc = "returned"
    /\ op = "patch"
    /\ zip_file_path # NoPath
    /\ Exists(pre, TempDir)
    /\ exc = "JSONDecodeError"
    /\ ~Exists(fs, TempDir)

\* C5: a call of update_gc_zip_annotation that follows a call with the same
\* name and location leaves the tree, the archive included, as the call
\* before left it.
C5_Idempotent ==
    (pc = "returned" /\ op = "patch" /\ prev = [op |-> "patch", args |-> args]) =>
        fs = pre

C5_Witness ==
    /\ PatchedCall
    /\ prev = [op |-> "patch", args |-> args]
    /\ Printed("Updated zip file saved")
    /\ Cardinality(FusionOf(EntriesAt(fs, zip_file_path))) >= 2
    /\ fs = pre

ParseErrors == {"JSONDecodeError", "UnicodeDecodeError"}
Parseable(content) == json_load(content).ok

\* C8: when the archive holds .fusion-data entries that do not load as JSON
\* (the others being JSON objects or arrays), each of them is reported, the
\* scan reaches the end and both tallies are printed, the name tally
\* counting the loaded entries whose annotations is an object.
C8_PerEntryIsolation ==
    LET entries == EntriesAt(fs, zip_file_path)
        count == [key \in DOMAIN name_counter |-> name_counter[key]]
    IN  (/\ pc = "returned"
         /\ op = "analyze"
         /\ zip_file_path # NoPath
         /\ IsZipAt(fs, zip_file_path)
         /\ \E e \in FusionOf(entries) : ~Parseable(entries[e].v)
         /\ \A e \in FusionOf(entries) :
                Parseable(entries[e].v) => IsContainer(json_load(entries[e].v).val)) =>
            /\ Printed("Occurrences")
            /\ todo = {}
            /\ \A e \in FusionOf(entries) :
                ~Parseable(entries[e].v) => Msg("not a valid JSON format", e) \in out
            /\ Cardinality({e \in FusionOf(entries) :
                    /\ Parseable(entries[e].v)
                    /\ HasDict(json_load(entries[e].v).val, "annotations")})
                = SumCounts(count)

\* C9: once a .fusion-data file of the scratch directory has failed to load,
\* the call goes through its handler and its clean-up only: the archive is
\* never written, it and everything outside the scratch directory stay what
\* they were, no exception leaves the call, and when the call has returned
\* the scratch directory with the edits made so far is gone.
C9_ParseFailureAbortsRepack ==
    (op = "patch" /\ exc \in ParseErrors) =>
        /\ pc \in {"p_except", "p_finally", "returned"}
        /\ ~Printed("Updated zip file saved")
        /\ raised = ""
        /\ fs[zip_file_path] = pre[zip_file_path]
        /\ RmTree(fs, TempDir) = RmTree(pre, TempDir)
        /\ pc = "returned" => (Printed("An error occurred") /\ ~Exists(fs, TempDir))

C9_Witness ==
    /\ PatchedCall
    /\ exc \in ParseErrors
    /\ todo # {}
    /\ Cardinality(todo) < Cardinality(FusionOf(EntriesAt(pre, zip_file_path)))
    /\ fs[zip_file_path] = pre[zip_file_path]

(***************************************************************************)
(* Properties of zip_folder and unzip_and_organize.                        *)
(***************************************************************************)
TopNames(entries) == {e[1] : e \in DOMAIN entries}
SubtreeAt(f, p) == [r \in {RelPath(q, p) : q \in {x \in DOMAIN f : Under(p, x)}} |-> f[p \o r]]
\* What extracting the entries into an empty directory yields.
Extracted(entries) == ExtractAll(<<>>, entries, <<>>)

\* z is an archive whose only top-level entry is a folder named as z.
SingleFolder(f, z) ==
    /\ IsZipAt(f, z)
    /\ TopNames(EntriesAt(f, z)) = {ZipBaseName(z)}
    /\ IsDir(Extracted(EntriesAt(f, z)), <<ZipBaseName(z)>>)

\* C6: after unzip_and_organize on a folder that holds an archive foo.zip
\* whose only top-level entry is a folder foo, no top-level .zip of the folder
\* is left, no temp_extraction is left, and the folder's foo holds exactly
\* the archive's foo.
C6_SingleFolderNormalized ==
    (/\ pc = "returned"
     /\ op = "normalize"
     /\ \E z \in GlobZip(pre) : SingleFolder(pre, z)) =>
        /\ \A z \in GlobZip(pre) : ~Exists(fs, z)
        /\ ~Exists(fs, TempExtract)
        /\ \A z \in GlobZip(pre) :
            SingleFolder(pre, z) =>
                SubtreeAt(fs, <<ZipBaseName(z)>>)
                    = SubtreeAt(Extracted(EntriesAt(pre, z)), <<ZipBaseName(z)>>)

\* C7: when zip_folder has returned, the archive holds one entry, named by
\* its relative path, for every file that was under the folder other than the
\* files named holder.gitignore and the archive itself, and no other entry.
C7_PackagerEntries ==
    (pc = "returned" /\ op = "zip" /\ raised = "") =>
        /\ IsZipAt(fs, zip_file_path)
        /\ DOMAIN EntriesAt(fs, zip_file_path)
            = {q \in WalkFiles(pre, <<>>) : Base(q) # HolderGitignore /\ q # zip_file_path}

=============================================================================
